---- MODULE Spec2Model ----
(***************************************************************************)
(* Front Desk Console (frontend/src): the App component's conversation     *)
(* state, the useAudioStream hook (WebSocket, microphone capture, audio    *)
(* playback) and the browser objects they drive.  The session orchestrator *)
(* on the other end of the socket is not part of the sources; it is        *)
(* modelled from the specification (the Srv... definitions).               *)
(***************************************************************************)
EXTENDS Naturals, Sequences, FiniteSets

\* ---------------------------------------------------------------- bounds
MaxSeq == 4        \* events the orchestrator emits in one run
MaxSockets == 2    \* WebSocket objects constructed in one run
MaxStarts == 2     \* startRecording invocations in one run
MaxFrames == 2     \* microphone buffers captured in one run
MaxFacts == 2      \* facts injected in one run
MaxInflight == 2   \* requests of useSession awaiting their response

\* ---------------------------------------------------------------- values
Null == "null"

Required == {"guest_name", "phone", "party_size", "date_time"}

ConversationState ==
  {"greeting", "identify_intent", "collecting_reservation",
   "checking_availability", "offering_alternatives", "confirming",
   "complete", "faq_mode", "modify_flow", "cancel_flow", "waitlist_flow"}

\* A console that starts with a party size already filled in.
PREFILLED_EXTRACTED ==
  [guest_name |-> Null, phone |-> Null, party_size |-> "2",
   date_time |-> Null, area_pref |-> Null, notes |-> Null,
   intent |-> Null, confirmation_code |-> Null]

INITIAL_EXTRACTED ==
  [guest_name |-> Null, phone |-> Null, party_size |-> Null,
   date_time |-> Null, area_pref |-> Null, notes |-> Null,
   intent |-> Null, confirmation_code |-> Null]

NotSpeaking == [user_speaking |-> FALSE, agent_speaking |-> FALSE]

\* WebSocket.readyState; NONE is a socket id not constructed yet.
ReadyState == {"NONE", "CONNECTING", "OPEN", "CLOSING", "CLOSED"}

SocketIds == 1..MaxSockets
StartIds == 1..MaxStarts

\* ------------------------------------------------------------- variables
VARIABLES
  \* App.tsx state
  transcript, extracted, missingFields, conversationState, speakingState,
  effectPending,      \* the [extracted] effect is scheduled, not yet run
  \* useSession
  sessionId, isLoading, error,
  \* useAudioStream state and refs
  isConnected, isRecording, audioLevel,
  wsRef, mediaStreamRef, audioContextRef, processorRef, animationFrameRef,
  \* browser objects
  readyState,         \* socket id -> readyState
  chan,               \* socket id -> messages in flight to the client
  liveStreams, liveContexts, liveProcessors, liveLoops,
  starts,             \* startRecording invocation -> position
  sentFrames,         \* frames handed to WebSocket.send, in order
  captured,           \* buffers captured so far
  pendingBlobs, played,
  \* the orchestrator (modelled from the specification)
  srvState, srvPrev, srvFields, srvSeq,
  \* history
  lastOp, callEnded, lastApplied, lastCorr, transitionLog,
  srvAtQuestion,      \* the session's state when a question last interrupted it
  srvFacts,           \* the session's fact list
  srvHint,            \* the intent an injected fact suggests, until acted on
  requested,          \* the flow button last clicked, until an utterance answers it
  availableSlots,     \* App.tsx state; setAvailableSlots is never called
  session,            \* useSession: persona_type, voice_id, facts of the session held
  inflight,           \* useSession: requests sent and not yet answered
  registry,           \* the Session Registry: id -> session entry
  regResult,          \* what the last registry operation returned
  turnFragments,      \* texts of the current turn's fragments, as they arrived
  creating,           \* createSession() calls awaiting their response
  createRequests      \* POST /sessions requests issued since the page loaded

appVars == <<transcript, extracted, missingFields, conversationState,
             speakingState, effectPending>>
hookVars == <<isConnected, isRecording, audioLevel, wsRef, mediaStreamRef,
              audioContextRef, processorRef, animationFrameRef>>
sockVars == <<readyState, chan>>
micVars == <<liveStreams, liveContexts, liveProcessors, liveLoops, starts,
             sentFrames, captured>>
playVars == <<pendingBlobs, played>>
srvVars == <<srvState, srvPrev, srvFields, srvSeq>>
msgHist == <<lastApplied, lastCorr, transitionLog, turnFragments>>
histVars == <<lastOp, callEnded, msgHist>>
\* what the handlers of the console itself never write
moreVars == <<srvAtQuestion, srvFacts, srvHint, requested, availableSlots>>
mountVars == <<creating, createRequests>>
restVars == <<session, inflight, registry, regResult, mountVars>>

sessVars == <<sessionId, isLoading, error>>

vars == <<appVars, sessVars, hookVars, sockVars, micVars, playVars,
          srvVars, histVars, moreVars, restVars>>

\* -------------------------------------------------------------- App.tsx
\* !extracted[f]: null and the empty string both count as not set.
Falsy(v) == v \in {Null, ""}

\* The array built by the [extracted] effect, as a set.
MissingOf(ex) == {f \in Required : Falsy(ex[f])}

handleTranscriptAlwaysAppend(prev, entry) == Append(prev, entry)

\* A merge that keeps the entry's first timestamp.
handleTranscriptKeepsTimestamp(prev, entry) ==
  IF Len(prev) > 0 /\ prev[Len(prev)].speaker = entry.speaker
  THEN [prev EXCEPT ![Len(prev)] = [@ EXCEPT !.text = @ \o entry.text]]
  ELSE Append(prev, entry)

handleTranscript(prev, entry) ==
  IF Len(prev) > 0 /\ prev[Len(prev)].speaker = entry.speaker
  THEN [prev EXCEPT ![Len(prev)] =
         [@ EXCEPT !.text = @ \o entry.text, !.timestamp = entry.timestamp]]
  ELSE Append(prev, entry)

handleExtractionKeepsPrev(prev, data) == prev

\* A handler that treats a repeated value as a retraction.
handleExtractionToggles(prev, data) ==
  [f \in DOMAIN data |-> IF prev[f] = data[f] THEN Null ELSE data[f]]

handleExtraction(prev, data) == data

handleStateChange(prev, state) == state

handleSpeakingChange(prev, speaking) == speaking

handleErrorResets(app, err) == [app EXCEPT !.conversationState = "greeting"]

\* console.error only
handleError(app, err) == app

\* ActionButtons: the Confirm button is enabled when canConfirm.
canConfirm(missing, fields) == missing = {} /\ fields.intent = "reserve"

handleConfirm(state) == "complete"

\* ------------------------------------------------- messages on the socket
BaseMsg ==
  [type |-> "info", speaker |-> "user", text |-> <<>>, timestamp |-> 0,
   data |-> INITIAL_EXTRACTED, state |-> "greeting",
   user_speaking |-> FALSE, agent_speaking |-> FALSE,
   seq |-> 0, corr |-> {}]

TranscriptMsg(sp, n) ==
  [BaseMsg EXCEPT !.type = "transcript", !.speaker = sp, !.text = <<n>>,
                  !.timestamp = n, !.seq = n]

ExtractionMsg(d, n, c) ==
  [BaseMsg EXCEPT !.type = "extraction", !.data = d, !.seq = n, !.corr = c]

StateMsg(st, n) == [BaseMsg EXCEPT !.type = "state", !.state = st, !.seq = n]

SpeakingMsg(u, a, n) ==
  [BaseMsg EXCEPT !.type = "speaking", !.user_speaking = u,
                  !.agent_speaking = a, !.seq = n]

\* a transcript fragment whose text is the empty string
EmptyMsg(sp, n) == [TranscriptMsg(sp, n) EXCEPT !.text = <<>>]

ErrorMsg(n) == [BaseMsg EXCEPT !.type = "error", !.seq = n]

AudioMsg(n) == [BaseMsg EXCEPT !.type = "audio", !.seq = n]

\* a text frame JSON.parse rejects
MalformedMsg(n) == [BaseMsg EXCEPT !.type = "malformed", !.seq = n]

\* A field the parsed object does not have reads as undefined.
Undefined == "undefined"

\* a text frame that parses and names a type, without that type's fields
IncompleteMsg(n) == [BaseMsg EXCEPT !.type = "state", !.state = Undefined, !.seq = n]

\* Text frames that are not a WSMessage.
MalformedFrames == {MalformedMsg(0), IncompleteMsg(0)}

\* ------------------------------------------- useAudioStream.handleMessage
AppState ==
  [transcript |-> transcript, extracted |-> extracted,
   conversationState |-> conversationState, speakingState |-> speakingState]

handleMessage(app, msg) ==
  CASE msg.type = "transcript" ->
         [app EXCEPT !.transcript = handleTranscript(@,
            [speaker |-> msg.speaker, text |-> msg.text,
             timestamp |-> msg.timestamp])]
    [] msg.type = "extraction" ->
         [app EXCEPT !.extracted = handleExtraction(@, msg.data)]
    [] msg.type = "state" ->
         [app EXCEPT !.conversationState = handleStateChange(@, msg.state)]
    [] msg.type = "speaking" ->
         [app EXCEPT !.speakingState = handleSpeakingChange(@,
            [user_speaking |-> msg.user_speaking,
             agent_speaking |-> msg.agent_speaking])]
    [] msg.type = "error" -> handleError(app, "server")
    [] OTHER -> app

\* Position of an applied event in the orchestrator's emission order:
\* within one utterance the transcript precedes the snapshot, which
\* precedes the state change.
Ord(msg) ==
  msg.seq * 4 + (CASE msg.type = "transcript" -> 1
                   [] msg.type = "extraction" -> 2
                   [] msg.type = "state" -> 3
                   [] OTHER -> 0)

Ordered(msg) == msg.type \in {"transcript", "extraction", "state"}

\* ------------------------------------------------- useAudioStream: refs
NoRef == 0   \* a ref holding null

\* The state connect() and stopRecording() read and write.
HookState ==
  [wsRef |-> wsRef, mediaStreamRef |-> mediaStreamRef,
   audioContextRef |-> audioContextRef, processorRef |-> processorRef,
   animationFrameRef |-> animationFrameRef,
   readyState |-> readyState, chan |-> chan,
   liveStreams |-> liveStreams, liveContexts |-> liveContexts,
   liveProcessors |-> liveProcessors, liveLoops |-> liveLoops,
   isConnected |-> isConnected, isRecording |-> isRecording,
   audioLevel |-> audioLevel, speakingState |-> speakingState]

FreeSockets == {k \in SocketIds : readyState[k] = "NONE"}

NewSocket == CHOOSE k \in FreeSockets : \A j \in FreeSockets : k <= j

\* connect() constructs a socket unless there is no session or the socket
\* in wsRef is OPEN.
Connects(sid, h) ==
  sid # Null /\ ~(h.wsRef # NoRef /\ h.readyState[h.wsRef] = "OPEN")

connect(sid, h) ==
  IF Connects(sid, h)
  THEN [h EXCEPT !.readyState[NewSocket] = "CONNECTING", !.wsRef = NewSocket]
  ELSE h

\* WebSocket.close(): the socket starts closing and dispatches no further
\* message event; what was in flight to it is discarded.
CloseSocket(h, k) ==
  IF h.readyState[k] \in {"CONNECTING", "OPEN"}
  THEN [h EXCEPT !.readyState[k] = "CLOSING", !.chan[k] = <<>>]
  ELSE h

stopRecording(h) ==
  LET released ==
        [h EXCEPT
           !.liveLoops = @ \ {h.animationFrameRef},
           !.liveProcessors = @ \ {h.processorRef}, !.processorRef = NoRef,
           !.liveContexts = @ \ {h.audioContextRef}, !.audioContextRef = NoRef,
           !.liveStreams = @ \ {h.mediaStreamRef}, !.mediaStreamRef = NoRef]
      closed ==
        IF released.wsRef # NoRef
        THEN [CloseSocket(released, released.wsRef) EXCEPT !.wsRef = NoRef]
        ELSE released
  IN [closed EXCEPT
        !.speakingState = handleSpeakingChange(@, NotSpeaking),
        !.isConnected = FALSE, !.isRecording = FALSE, !.audioLevel = 0]

\* Assigns the hook and browser state from a HookState record.
SetHook(h) ==
  /\ wsRef' = h.wsRef
  /\ mediaStreamRef' = h.mediaStreamRef
  /\ audioContextRef' = h.audioContextRef
  /\ processorRef' = h.processorRef
  /\ animationFrameRef' = h.animationFrameRef
  /\ readyState' = h.readyState
  /\ chan' = h.chan
  /\ liveStreams' = h.liveStreams
  /\ liveContexts' = h.liveContexts
  /\ liveProcessors' = h.liveProcessors
  /\ liveLoops' = h.liveLoops
  /\ isConnected' = h.isConnected
  /\ isRecording' = h.isRecording
  /\ audioLevel' = h.audioLevel
  /\ speakingState' = h.speakingState

\* The console is rendered (not the loading screen) and the mount effect
\* has run, which it does before the page handles any input.
Rendered == ~(isLoading /\ sessionId = Null) /\ (sessionId # Null \/ error # Null)

\* ------------------------ the orchestrator, modelled from the specification
\* What a user utterance can carry (specification 4.4, 4.5).
Utterances ==
  {"reserve",    \* "I'd like to book a table"
   "name",       \* name and phone
   "rest",       \* party size and time
   "correct",    \* "actually, not that time": an explicit correction
   "question",   \* a question asked mid-flow
   "cancel",     \* intent reclassified to cancel
   "yes",        \* an affirmative answer
   "garbled"}    \* extraction fails on it

\* The fields an utterance explicitly corrects.
SrvCorrects(kind) == IF kind = "correct" THEN {"date_time"} ELSE {}

\* extract(prior_fields, transcript, facts): a required field is cleared
\* only by an explicit correction.
SrvExtract(prior, kind) ==
  CASE kind = "reserve" -> [prior EXCEPT !.intent = "reserve"]
    [] kind = "name" -> [prior EXCEPT !.guest_name = "Ann", !.phone = "555"]
    [] kind = "rest" -> [prior EXCEPT !.party_size = "4", !.date_time = "19:00"]
    [] kind = "correct" -> [prior EXCEPT !.date_time = Null]
    [] kind = "cancel" -> [prior EXCEPT !.intent = "cancel"]
    [] kind = "modify" -> [prior EXCEPT !.intent = "modify"]
    [] kind = "waitlist" -> [prior EXCEPT !.intent = "waitlist"]
    [] OTHER -> prior

SrvMissing(f) == {x \in Required : f[x] = Null}

\* The flow state of a reclassified intent.
FlowOf(intent) ==
  CASE intent = "cancel" -> "cancel_flow"
    [] intent = "modify" -> "modify_flow"
    [] OTHER -> "waitlist_flow"

\* Utterances that interrupt the reservation flow.
Interrupts == {"question", "cancel", "modify", "waitlist"}

\* Facts injected through the endpoint (injectFact(fact: string)).
Facts == {"cancel", "waitlist"}

\* inject_fact(session_id, text): the fact is appended to the fact list.
SrvInjectFact(facts, fact) == Append(facts, fact)

\* The facts are context for extraction: a disambiguating (affirmative)
\* utterance after an injected fact is classified with the intent the fact
\* suggests.
SrvClassify(kind, hint) == IF kind = "yes" /\ hint # Null THEN hint ELSE kind

SrvRestoreGreeting(prev) == "greeting"

\* Leaving faq_mode: the remembered pre-interruption state.
SrvRestore(prev) == prev

\* The conversation state machine: at most one transition per utterance.
SrvTransition(st, prev, f, kind) ==
  CASE st = "complete" -> [state |-> st, prev |-> prev]
    [] st # "complete" /\ kind = "question" ->
         [state |-> "faq_mode", prev |-> IF st = "faq_mode" THEN prev ELSE st]
    [] st \notin {"complete", "cancel_flow"} /\ kind = "cancel" ->
         [state |-> "cancel_flow", prev |-> prev]
    [] st \notin {"complete", "modify_flow"} /\ kind = "modify" ->
         [state |-> "modify_flow", prev |-> prev]
    [] st \notin {"complete", "waitlist_flow"} /\ kind = "waitlist" ->
         [state |-> "waitlist_flow", prev |-> prev]
    [] st = "faq_mode" /\ kind \notin Interrupts ->
         [state |-> SrvRestore(prev), prev |-> prev]
    [] st = "greeting" /\ kind \notin Interrupts
         /\ f.intent # Null ->
         [state |-> "identify_intent", prev |-> prev]
    [] st = "identify_intent" /\ kind \notin Interrupts
         /\ f.intent = "reserve" /\ SrvMissing(f) # {} ->
         [state |-> "collecting_reservation", prev |-> prev]
    [] st = "collecting_reservation" /\ kind \notin Interrupts
         /\ SrvMissing(f) = {} ->
         [state |-> "checking_availability", prev |-> prev]
    [] st = "offering_alternatives" /\ kind = "yes" ->
         [state |-> "confirming", prev |-> prev]
    [] st = "confirming" /\ kind = "yes" /\ SrvMissing(f) = {} ->
         [state |-> "complete", prev |-> prev]
    [] OTHER -> [state |-> st, prev |-> prev]

\* The events one utterance puts on the channel, in order: the fragment,
\* then the snapshot (or the error when extraction fails), then the state
\* change if there is one.
SrvEvents(st, prev, fields, kind, n) ==
  IF kind = "garbled"
  THEN <<TranscriptMsg("user", n), ErrorMsg(n)>>
  ELSE LET f == SrvExtract(fields, kind)
           t == SrvTransition(st, prev, f, kind)
       IN <<TranscriptMsg("user", n), ExtractionMsg(f, n, SrvCorrects(kind))>>
          \o (IF t.state # st THEN <<StateMsg(t.state, n)>> ELSE <<>>)

\* The orchestrator writes to a connection it holds open, one batch of
\* events in flight per connection.
CanEmit(k) == readyState[k] = "OPEN" /\ chan[k] = <<>> /\ srvSeq < MaxSeq

\* ------------------------------------------------- the Session Registry
\* The personas and their default voices (PERSONAS); of the voices
\* offered, one that is a persona's default and one that is not.
Personas == {"fine_dining", "family", "sports_bar"}

default_voice(persona) ==
  CASE persona = "fine_dining" -> "NATF2"
    [] persona = "family" -> "NATF1"
    [] OTHER -> "NATM1"

Voices == {"NATF2", "NATM2"}

\* What the console shows before a session says otherwise.
DefaultPersona == "family"
DefaultVoice == "NATF1"

\* Session ids, in the order the registry allocates them.
IdOrder == <<"s1", "s2">>
SessIds == {IdOrder[i] : i \in 1..Len(IdOrder)}

NoSessions == [id \in {} |-> Null]

\* useState<Session | null>(null): no session is held.
NoSession == [persona_type |-> Null, voice_id |-> Null, facts |-> <<>>]

\* A registry that forgets a session has ended.
RegFaultLenient(reg, id, op) ==
  IF id \notin DOMAIN reg THEN "SessionNotFound" ELSE "ok"

\* Error conditions: an operation on an unknown id fails with
\* SessionNotFound, an operation other than get on an ended session with
\* SessionEnded.
RegFault(reg, id, op) ==
  IF id \notin DOMAIN reg THEN "SessionNotFound"
  ELSE IF ~reg[id].is_active /\ op # "get" THEN "SessionEnded"
  ELSE "ok"

Faults == {"SessionNotFound", "SessionEnded"}

RegPut(reg, id, entry) ==
  [i \in DOMAIN reg \cup {id} |-> IF i = id THEN entry ELSE reg[i]]

\* create(restaurant_id): allocates an id, default persona and voice.
RegCreate(reg) ==
  LET i == CHOOSE j \in 1..Len(IdOrder) :
             /\ IdOrder[j] \notin DOMAIN reg
             /\ \A l \in 1..(j - 1) : IdOrder[l] \in DOMAIN reg
      entry == [is_active |-> TRUE, persona_type |-> DefaultPersona,
                voice_id |-> default_voice(DefaultPersona)]
  IN [registry |-> RegPut(reg, IdOrder[i], entry), result |-> IdOrder[i]]

\* get(id) -> Session | NotFound
RegGet(reg, id) ==
  [registry |-> reg, result |-> RegFault(reg, id, "get")]

\* update_persona(id, persona) -> voice_id
RegUpdatePersona(reg, id, persona) ==
  IF RegFault(reg, id, "update_persona") # "ok"
  THEN [registry |-> reg, result |-> RegFault(reg, id, "update_persona")]
  ELSE [registry |-> RegPut(reg, id, [reg[id] EXCEPT
                                        !.persona_type = persona,
                                        !.voice_id = default_voice(persona)]),
        result |-> default_voice(persona)]

\* update_voice(id, voice) -> ok
RegUpdateVoice(reg, id, voice) ==
  IF RegFault(reg, id, "update_voice") # "ok"
  THEN [registry |-> reg, result |-> RegFault(reg, id, "update_voice")]
  ELSE [registry |-> RegPut(reg, id, [reg[id] EXCEPT !.voice_id = voice]),
        result |-> "ok"]

\* end(id) -> ok, idempotent: ending an ended session changes nothing.
RegEnd(reg, id) ==
  IF RegFault(reg, id, "end") # "ok"
  THEN [registry |-> reg, result |-> RegFault(reg, id, "end")]
  ELSE [registry |-> RegPut(reg, id, [reg[id] EXCEPT !.is_active = FALSE]),
        result |-> "ok"]

\* ------------------------------------------------------------------ Init
Init ==
  /\ transcript = <<>>
  /\ extracted = INITIAL_EXTRACTED
  /\ missingFields = Required
  /\ conversationState = "greeting"
  /\ speakingState = NotSpeaking
  /\ effectPending = FALSE
  /\ sessionId = Null
  /\ isLoading = FALSE
  /\ error = Null
  /\ isConnected = FALSE
  /\ isRecording = FALSE
  /\ audioLevel = 0
  /\ wsRef = NoRef
  /\ mediaStreamRef = NoRef
  /\ audioContextRef = NoRef
  /\ processorRef = NoRef
  /\ animationFrameRef = NoRef
  /\ readyState = [k \in SocketIds |-> "NONE"]
  /\ chan = [k \in SocketIds |-> <<>>]
  /\ liveStreams = {}
  /\ liveContexts = {}
  /\ liveProcessors = {}
  /\ liveLoops = {}
  /\ starts = [i \in StartIds |-> "idle"]
  /\ sentFrames = <<>>
  /\ captured = 0
  /\ pendingBlobs = {}
  /\ played = <<>>
  /\ srvState = "greeting"
  /\ srvPrev = "greeting"
  /\ srvFields = INITIAL_EXTRACTED
  /\ srvSeq = 0
  /\ lastOp = "other"
  /\ callEnded = FALSE
  /\ lastApplied = 0
  /\ lastCorr = {}
  /\ transitionLog = <<>>
  /\ srvAtQuestion = Null
  /\ srvFacts = <<>>
  /\ srvHint = Null
  /\ requested = Null
  /\ availableSlots = {}
  /\ session = NoSession
  /\ inflight = {}
  /\ registry = NoSessions
  /\ regResult = Null
  /\ turnFragments = <<>>
  /\ creating = 0
  /\ createRequests = 0

\* ------------------------------------------------ useSession, App effects
\* App's mount effect: createSession() when there is no session, no
\* request in flight and no error.
createSession ==
  /\ sessionId = Null /\ ~isLoading /\ error = Null
  /\ createRequests = 0
  /\ isLoading' = TRUE
  /\ creating' = creating + 1
  /\ createRequests' = createRequests + 1
  /\ lastOp' = "other"
  /\ UNCHANGED <<appVars, sessionId, error, hookVars, sockVars, micVars,
                 playVars, srvVars, callEnded, msgHist, moreVars, session,
                 inflight, registry, regResult>>

\* React.StrictMode runs the mount effect a second time in a development
\* build, in the same commit and with the closure of the first render:
\* session, isLoading and error are still null, false and null there, so
\* createSession() is called again.
StrictModeMount ==
  /\ createRequests = 1 /\ creating = 1
  /\ isLoading' = TRUE
  /\ error' = Null
  /\ creating' = creating + 1
  /\ createRequests' = createRequests + 1
  /\ lastOp' = "other"
  /\ UNCHANGED <<appVars, sessionId, hookVars, sockVars, micVars,
                 playVars, srvVars, callEnded, msgHist, moreVars, session,
                 inflight, registry, regResult>>

\* Both fetches succeed: setSession, and the hook's [sessionId] effect runs
\* (the previous effect's cleanup, then connect()).
createSessionOk ==
  /\ creating > 0
  /\ DOMAIN registry # SessIds
  /\ FreeSockets # {}
  /\ LET c == RegCreate(registry)
         entry == c.registry[c.result]
     IN /\ registry' = c.registry
        /\ regResult' = RegGet(c.registry, c.result).result
        /\ sessionId' = c.result
        /\ session' = [persona_type |-> entry.persona_type,
                       voice_id |-> entry.voice_id, facts |-> srvFacts]
        /\ SetHook(connect(c.result, stopRecording(HookState)))
  /\ isLoading' = FALSE
  /\ creating' = creating - 1
  /\ lastOp' = "other"
  /\ UNCHANGED <<transcript, extracted, missingFields, conversationState,
                 effectPending, error, starts, sentFrames, captured, playVars,
                 srvVars, callEnded, msgHist, moreVars, inflight,
                 createRequests>>

createSessionFails ==
  /\ creating > 0
  /\ error' = "Failed to create session"
  /\ isLoading' = FALSE
  /\ creating' = creating - 1
  /\ lastOp' = "other"
  /\ UNCHANGED <<appVars, sessionId, hookVars, sockVars, micVars, playVars,
                 srvVars, callEnded, msgHist, moreVars, session, inflight,
                 registry, regResult, createRequests>>

\* The [extracted] effect of App.
MissingFieldsEffect ==
  /\ effectPending
  /\ missingFields' = MissingOf(extracted)
  /\ effectPending' = FALSE
  /\ lastOp' = "other"
  /\ UNCHANGED <<transcript, extracted, conversationState, speakingState,
                 sessVars, hookVars, sockVars, micVars, playVars, srvVars, callEnded, msgHist, moreVars, restVars>>

\* The Confirm button, enabled by ActionButtons when canConfirm.
Confirm ==
  /\ Rendered
  /\ canConfirm(missingFields, extracted)
  /\ conversationState' = handleConfirm(conversationState)
  /\ lastOp' = "other"
  /\ UNCHANGED <<transcript, extracted, missingFields, speakingState,
                 effectPending, sessVars, hookVars, sockVars, micVars,
                 playVars, srvVars, callEnded, msgHist, moreVars, restVars>>

\* ------------------------------------------------------ socket callbacks
\* ws.onopen
SocketOpen(k) ==
  /\ readyState[k] = "CONNECTING"
  /\ readyState' = [readyState EXCEPT ![k] = "OPEN"]
  /\ isConnected' = TRUE
  /\ lastOp' = "other"
  /\ UNCHANGED <<appVars, sessVars, isRecording, audioLevel, wsRef,
                 mediaStreamRef, audioContextRef, processorRef,
                 animationFrameRef, chan, micVars, playVars, srvVars,
                 callEnded, msgHist, moreVars, restVars>>

\* The connection cannot be established: ws.onerror, then ws.onclose.
SocketFails(k) ==
  /\ readyState[k] = "CONNECTING"
  /\ readyState' = [readyState EXCEPT ![k] = "CLOSED"]
  /\ LET app == handleError(AppState, "Connection error")
     IN /\ transcript' = app.transcript
        /\ extracted' = app.extracted
        /\ conversationState' = app.conversationState
        /\ speakingState' = app.speakingState
  /\ isConnected' = FALSE
  /\ lastOp' = "transport"
  /\ UNCHANGED <<missingFields, effectPending, sessVars, isRecording,
                 audioLevel, wsRef, mediaStreamRef, audioContextRef,
                 processorRef, animationFrameRef, chan, micVars, playVars,
                 srvVars, callEnded, msgHist, moreVars, restVars>>

\* ws.onclose: after close(), or when the peer or the network drops an
\* open connection.
SocketCloses(k) ==
  /\ readyState[k] \in {"CLOSING", "OPEN"}
  /\ readyState' = [readyState EXCEPT ![k] = "CLOSED"]
  /\ chan' = [chan EXCEPT ![k] = <<>>]
  /\ isConnected' = FALSE
  /\ lastOp' = "other"
  /\ UNCHANGED <<appVars, sessVars, isRecording, audioLevel, wsRef,
                 mediaStreamRef, audioContextRef, processorRef,
                 animationFrameRef, micVars, playVars, srvVars,
                 callEnded, msgHist, moreVars, restVars>>

\* Audio blobs are numbered in the order they arrive.
Arrivals == Cardinality(pendingBlobs) + Len(played)

EventTypes == {"transcript", "extraction", "state", "speaking"}

\* ws.onmessage: a message event is dispatched only while the socket is
\* OPEN.  A Blob goes to playAudioBlob, a text frame through JSON.parse to
\* handleMessage; a frame that does not parse is logged and dropped.
onmessage(k) ==
  /\ readyState[k] = "OPEN" /\ chan[k] # <<>>
  /\ LET msg == Head(chan[k])
         app == IF msg.type \in {"audio", "malformed"}
                THEN AppState ELSE handleMessage(AppState, msg)
     IN /\ chan' = [chan EXCEPT ![k] = Tail(@)]
        /\ transcript' = app.transcript
        /\ extracted' = app.extracted
        /\ conversationState' = app.conversationState
        /\ speakingState' = app.speakingState
        /\ effectPending' = (effectPending \/ msg.type = "extraction")
        /\ pendingBlobs' = IF msg.type = "audio"
                           THEN pendingBlobs \cup {Arrivals + 1}
                           ELSE pendingBlobs
        /\ lastApplied' = IF Ordered(msg) THEN Ord(msg) ELSE lastApplied
        /\ lastCorr' = IF msg.type = "extraction" THEN msg.corr ELSE lastCorr
        /\ turnFragments' =
             IF msg.type # "transcript" THEN turnFragments
             ELSE IF transcript # <<>> /\ transcript[Len(transcript)].speaker = msg.speaker
                  THEN Append(turnFragments, msg.text)
                  ELSE <<msg.text>>
        /\ transitionLog' = IF app.conversationState # conversationState
                            THEN Append(transitionLog, msg.seq)
                            ELSE transitionLog
        /\ lastOp' = IF msg.type \in EventTypes \cup {"error"}
                     THEN msg.type ELSE "other"
  /\ UNCHANGED <<missingFields, sessVars, hookVars, readyState, micVars,
                 played, srvVars, callEnded, moreVars, restVars>>

\* ------------------------------------------------ startRecording, capture
NextStart == CHOOSE i \in StartIds :
               starts[i] = "idle" /\ \A j \in StartIds : j < i => starts[j] # "idle"

\* The Start Call button (shown while isRecording is false): the
\* synchronous head of startRecording, up to its first await.
StartCall ==
  /\ Rendered /\ ~isRecording
  /\ \E i \in StartIds : starts[i] = "idle"
  /\ LET ready == wsRef # NoRef /\ readyState[wsRef] = "OPEN"
     IN /\ ~ready /\ Connects(sessionId, HookState) => FreeSockets # {}
        /\ SetHook(IF ready THEN HookState ELSE connect(sessionId, HookState))
        /\ starts' = [starts EXCEPT ![NextStart] = IF ready THEN "mic" ELSE "wait"]
  /\ callEnded' = FALSE
  /\ lastOp' = "other"
  /\ UNCHANGED <<transcript, extracted, missingFields, conversationState,
                 effectPending, sessVars, sentFrames, captured, playVars,
                 srvVars, msgHist, moreVars, restVars>>

\* The 500 ms timer of startRecording fires.
StartWaited(i) ==
  /\ starts[i] = "wait"
  /\ starts' = [starts EXCEPT ![i] = "mic"]
  /\ lastOp' = "other"
  /\ UNCHANGED <<appVars, sessVars, hookVars, sockVars, liveStreams,
                 liveContexts, liveProcessors, liveLoops, sentFrames, captured,
                 playVars, srvVars, callEnded, msgHist, moreVars, restVars>>

\* getUserMedia resolves: the stream, context, analyser and processor of
\* this invocation are created and stored in the refs, the level loop
\* starts, setIsRecording(true).
MicGranted(i) ==
  /\ starts[i] = "mic"
  /\ starts' = [starts EXCEPT ![i] = "done"]
  /\ mediaStreamRef' = i
  /\ audioContextRef' = i
  /\ processorRef' = i
  /\ animationFrameRef' = i
  /\ liveStreams' = liveStreams \cup {i}
  /\ liveContexts' = liveContexts \cup {i}
  /\ liveProcessors' = liveProcessors \cup {i}
  /\ liveLoops' = liveLoops \cup {i}
  /\ audioLevel' = 0    \* the analyser has processed no audio yet
  /\ isRecording' = TRUE
  /\ lastOp' = "other"
  /\ UNCHANGED <<appVars, sessVars, isConnected, wsRef, sockVars, sentFrames,
                 captured, playVars, srvVars, callEnded, msgHist, moreVars, restVars>>

\* A failure path that reports recording as started.
MicDeniedSetsRecording(i) ==
  /\ starts[i] = "mic"
  /\ starts' = [starts EXCEPT ![i] = "done"]
  /\ isRecording' = TRUE
  /\ lastOp' = "transport"
  /\ UNCHANGED <<appVars, sessVars, isConnected, audioLevel, wsRef,
                 mediaStreamRef, audioContextRef, processorRef,
                 animationFrameRef, sockVars, liveStreams, liveContexts,
                 liveProcessors, liveLoops, sentFrames, captured, playVars,
                 srvVars, callEnded, msgHist, moreVars, restVars>>

\* getUserMedia rejects: onError('Failed to access microphone').
MicDenied(i) ==
  /\ starts[i] = "mic"
  /\ starts' = [starts EXCEPT ![i] = "done"]
  /\ LET app == handleError(AppState, "Failed to access microphone")
     IN /\ transcript' = app.transcript
        /\ extracted' = app.extracted
        /\ conversationState' = app.conversationState
        /\ speakingState' = app.speakingState
  /\ lastOp' = "transport"
  /\ UNCHANGED <<missingFields, effectPending, sessVars, hookVars, sockVars,
                 liveStreams, liveContexts, liveProcessors, liveLoops,
                 sentFrames, captured, playVars, srvVars, callEnded,
                 msgHist, moreVars, restVars>>

\* processor.onaudioprocess: the buffer is sent when the socket in wsRef
\* is OPEN, dropped otherwise.
onaudioprocess(p) ==
  /\ p \in liveProcessors /\ captured < MaxFrames
  /\ captured' = captured + 1
  /\ sentFrames' =
       IF wsRef # NoRef /\ readyState[wsRef] = "OPEN"
       THEN Append(sentFrames, [proc |-> p, n |-> captured + 1, ws |-> wsRef])
       ELSE sentFrames
  /\ lastOp' = "other"
  /\ UNCHANGED <<appVars, sessVars, hookVars, sockVars, liveStreams,
                 liveContexts, liveProcessors, liveLoops, starts, playVars,
                 srvVars, callEnded, msgHist, moreVars, restVars>>

\* One turn of a level loop: setAudioLevel, then requestAnimationFrame
\* stores the new frame id in animationFrameRef.
updateAudioLevel(l) ==
  /\ l \in liveLoops
  /\ \E level \in {0, 1} : audioLevel' = level
  /\ animationFrameRef' = l
  /\ audioLevel' # audioLevel \/ animationFrameRef' # animationFrameRef
  /\ lastOp' = "other"
  /\ UNCHANGED <<appVars, sessVars, isConnected, isRecording, wsRef,
                 mediaStreamRef, audioContextRef, processorRef, sockVars,
                 micVars, playVars, srvVars, callEnded, msgHist, moreVars, restVars>>

\* The End Call button (shown while isRecording is true).
EndCall ==
  /\ Rendered /\ isRecording
  /\ SetHook(stopRecording(HookState))
  /\ callEnded' = TRUE
  /\ lastOp' = "stopRecording"
  /\ UNCHANGED <<transcript, extracted, missingFields, conversationState,
                 effectPending, sessVars, starts, sentFrames, captured,
                 playVars, srvVars, msgHist, moreVars, restVars>>

\* ------------------------------------------------------------ playAudioBlob
\* blob.arrayBuffer() of one received blob resolves (the reads of
\* different blobs are independent); a new AudioContext plays it at once.
playAudioBlob(b) ==
  /\ b \in pendingBlobs
  /\ pendingBlobs' = pendingBlobs \ {b}
  /\ played' = Append(played, b)
  /\ lastOp' = "other"
  /\ UNCHANGED <<appVars, sessVars, hookVars, sockVars, micVars, srvVars, callEnded, msgHist, moreVars, restVars>>

\* ------------------------------------------- useSession: the endpoints
\* A request of the hook: what was asked, and the response once the
\* backend has produced it.
Request(op, arg) ==
  [op |-> op, arg |-> arg, status |-> "sent", voice_id |-> Null, facts |-> <<>>]

\* `if (!session?.session_id) return`, then the fetch is issued.
SendRequest(op, arg) ==
  /\ Rendered /\ sessionId # Null
  /\ Cardinality(inflight) < MaxInflight
  /\ \A r \in inflight : ~(r.op = op /\ r.arg = arg)
  /\ inflight' = inflight \cup {Request(op, arg)}
  /\ lastOp' = "other"
  /\ UNCHANGED <<appVars, sessVars, hookVars, sockVars, micVars, playVars,
                 srvVars, callEnded, msgHist, moreVars, session, registry,
                 regResult, mountVars>>

\* setSession(prev => prev ? {...prev, persona_type, voice_id} : null)
setPersona(prev, personaType, data) ==
  IF prev # NoSession
  THEN [prev EXCEPT !.persona_type = personaType, !.voice_id = data]
  ELSE NoSession

\* setSession(prev => prev ? {...prev, voice_id} : null)
setVoiceResetsPersona(prev, voiceId) ==
  IF prev # NoSession
  THEN [prev EXCEPT !.voice_id = voiceId, !.persona_type = DefaultPersona]
  ELSE NoSession

setVoice(prev, voiceId) ==
  IF prev # NoSession THEN [prev EXCEPT !.voice_id = voiceId] ELSE NoSession

\* setSession(prev => prev ? {...prev, facts: data.facts} : null)
setFactsAppendsLocally(prev, fact, data) ==
  IF prev # NoSession THEN [prev EXCEPT !.facts = Append(prev.facts, fact)] ELSE NoSession

setFacts(prev, fact, data) ==
  IF prev # NoSession THEN [prev EXCEPT !.facts = data] ELSE NoSession

\* The response arrives: !response.ok throws, and the catch sets error;
\* otherwise the session held is updated.
Respond(r, next) ==
  /\ r \in inflight /\ r.status # "sent"
  /\ inflight' = inflight \ {r}
  /\ IF r.status \in Faults
     THEN /\ error' = "Failed to update"
          /\ UNCHANGED session
     ELSE /\ session' = next
          /\ UNCHANGED error
  /\ lastOp' = "other"
  /\ UNCHANGED <<appVars, sessionId, isLoading, hookVars, sockVars, micVars,
                 playVars, srvVars, callEnded, msgHist, moreVars, registry,
                 regResult, mountVars>>

updatePersona(personaType) == SendRequest("persona", personaType)
updatePersonaDone(r) ==
  r.op = "persona" /\ Respond(r, setPersona(session, r.arg, r.voice_id))

updateVoice(voiceId) == SendRequest("voice", voiceId)
updateVoiceDone(r) == r.op = "voice" /\ Respond(r, setVoice(session, r.arg))

injectFact(fact) == SendRequest("fact", fact)
injectFactDone(r) ==
  r.op = "fact" /\ Respond(r, setFacts(session, r.arg, r.facts))

\* The backend serves a request of the hook against the registry; an
\* injected fact is appended to the session's list, which the response
\* carries.
ServeRequest(r) ==
  /\ r \in inflight /\ r.status = "sent"
  /\ LET fault == RegFault(registry, sessionId, r.op)
     IN CASE r.op = "persona" ->
               LET o == RegUpdatePersona(registry, sessionId, r.arg)
               IN /\ registry' = o.registry
                  /\ inflight' = (inflight \ {r}) \cup
                       {IF fault = "ok" THEN [r EXCEPT !.status = "ok", !.voice_id = o.result]
                        ELSE [r EXCEPT !.status = fault]}
                  /\ UNCHANGED <<srvFacts, srvHint>>
          [] r.op = "voice" ->
               LET o == RegUpdateVoice(registry, sessionId, r.arg)
               IN /\ registry' = o.registry
                  /\ inflight' = (inflight \ {r}) \cup {[r EXCEPT !.status = o.result]}
                  /\ UNCHANGED <<srvFacts, srvHint>>
          [] OTHER ->
               /\ fault = "ok" => Len(srvFacts) < MaxFacts
               /\ UNCHANGED registry
               /\ IF fault = "ok"
                  THEN /\ srvFacts' = SrvInjectFact(srvFacts, r.arg)
                       /\ srvHint' = r.arg
                       /\ inflight' = (inflight \ {r}) \cup
                            {[r EXCEPT !.status = "ok",
                                       !.facts = SrvInjectFact(srvFacts, r.arg)]}
                  ELSE /\ UNCHANGED <<srvFacts, srvHint>>
                       /\ inflight' = (inflight \ {r}) \cup {[r EXCEPT !.status = fault]}
  /\ lastOp' = "other"
  /\ UNCHANGED <<appVars, sessVars, hookVars, sockVars, micVars, playVars,
                 srvVars, callEnded, msgHist, srvAtQuestion, requested,
                 availableSlots, session, regResult,
                 mountVars>>

\* ------------------------------------------ callers of the registry
\* A request to a session lifecycle endpoint, from any caller, with any id.
RegistryOp(r) ==
  /\ registry' = r.registry
  /\ regResult' = r.result
  /\ lastOp' = "other"
  /\ UNCHANGED <<appVars, sessVars, hookVars, sockVars, micVars, playVars,
                 srvVars, callEnded, msgHist, moreVars, session, inflight,
                 mountVars>>

RegistryCreate == DOMAIN registry # SessIds /\ RegistryOp(RegCreate(registry))
RegistryGet(id) == RegistryOp(RegGet(registry, id))
RegistryUpdatePersona(id, persona) ==
  RegistryOp(RegUpdatePersona(registry, id, persona))
RegistryUpdateVoice(id, voice) == RegistryOp(RegUpdateVoice(registry, id, voice))
RegistryEnd(id) == RegistryOp(RegEnd(registry, id))

\* ------------------------------------- input to and events from the peer
\* The user says or types something (sendTextInput, or captured audio the
\* peer recognizes): it travels on the socket in wsRef, which must be OPEN,
\* and the orchestrator answers on that connection.
UserUtterance(kind) ==
  /\ wsRef # NoRef /\ CanEmit(wsRef)
  /\ LET n == srvSeq + 1
         eff == SrvClassify(kind, srvHint)
         f == SrvExtract(srvFields, eff)
         t == SrvTransition(srvState, srvPrev, f, eff)
     IN /\ chan' = [chan EXCEPT ![wsRef] =
                      SrvEvents(srvState, srvPrev, srvFields, eff, n)]
        /\ srvSeq' = n
        /\ srvFields' = IF kind = "garbled" THEN srvFields ELSE f
        /\ srvState' = IF kind = "garbled" THEN srvState ELSE t.state
        /\ srvPrev' = IF kind = "garbled" THEN srvPrev ELSE t.prev
        /\ srvAtQuestion' = IF kind = "question" /\ srvState # "faq_mode"
                                /\ t.state = "faq_mode"
                             THEN srvState ELSE srvAtQuestion
  /\ srvHint' = IF kind = "yes" THEN Null ELSE srvHint
  /\ requested' = IF kind = "yes" THEN Null ELSE requested
  /\ lastOp' = "other"
  /\ UNCHANGED <<appVars, sessVars, hookVars, readyState, micVars, playVars,
                 callEnded, msgHist, srvFacts, availableSlots, restVars>>

\* sendControl('inject_fact', {fact}): the frame is sent when the socket
\* wsRef holds is OPEN, and dropped otherwise; the orchestrator appends a
\* fact it receives to the session's list.
sendControl(fact) ==
  IF wsRef # NoRef /\ readyState[wsRef] = "OPEN"
  THEN srvFacts' = SrvInjectFact(srvFacts, fact) /\ srvHint' = fact
  ELSE UNCHANGED <<srvFacts, srvHint>>

\* The Modify, Cancel and Waitlist buttons (always enabled).
FlowButton(fact) ==
  /\ Rendered /\ Len(srvFacts) < MaxFacts
  /\ sendControl(fact)
  /\ requested' = fact
  /\ lastOp' = "other"
  /\ UNCHANGED <<appVars, sessVars, hookVars, sockVars, micVars, playVars,
                 srvVars, callEnded, msgHist, srvAtQuestion, availableSlots,
                 restVars>>

handleModify == FlowButton("modify")

handleCancel == FlowButton("cancel")

handleWaitlist == FlowButton("waitlist")

\* The agent speaks on a connection: a fragment of its turn, followed by
\* the snapshot taken after the new transcript entry.
AgentFragment(k) ==
  /\ CanEmit(k)
  /\ chan' = [chan EXCEPT ![k] =
                <<TranscriptMsg("agent", srvSeq + 1),
                  ExtractionMsg(srvFields, srvSeq + 1, {})>>]
  /\ srvSeq' = srvSeq + 1
  /\ lastOp' = "other"
  /\ UNCHANGED <<appVars, sessVars, hookVars, readyState, micVars, playVars,
                 srvState, srvPrev, srvFields, callEnded, msgHist, moreVars, restVars>>

\* The availability collaborator answers while the machine is in
\* checking_availability; a failed check is an error event and no transition.
Availability(k, result) ==
  /\ CanEmit(k) /\ srvState = "checking_availability"
  /\ LET next == CASE result = "available" -> "confirming"
                   [] result = "unavailable" -> "offering_alternatives"
                   [] OTHER -> srvState
     IN /\ srvState' = next
        /\ chan' = [chan EXCEPT ![k] =
                      IF result = "failure" THEN <<ErrorMsg(srvSeq + 1)>>
                      ELSE <<StateMsg(next, srvSeq + 1)>>]
  /\ srvSeq' = srvSeq + 1
  /\ lastOp' = "other"
  /\ UNCHANGED <<appVars, sessVars, hookVars, readyState, micVars, playVars,
                 srvPrev, srvFields, callEnded, msgHist, moreVars, restVars>>

\* A speaking event, an audio frame, or a text frame that is not JSON.
PeerFrame(k, msg) ==
  /\ CanEmit(k)
  /\ chan' = [chan EXCEPT ![k] = <<[msg EXCEPT !.seq = srvSeq + 1]>>]
  /\ srvSeq' = srvSeq + 1
  /\ lastOp' = "other"
  /\ UNCHANGED <<appVars, sessVars, hookVars, readyState, micVars, playVars,
                 srvState, srvPrev, srvFields, callEnded, msgHist, moreVars, restVars>>

\* The recognizer yields a fragment with no text in it; it reaches the
\* console as any other fragment does.
EmptyFragment(k, sp) ==
  /\ CanEmit(k)
  /\ chan' = [chan EXCEPT ![k] = <<EmptyMsg(sp, srvSeq + 1)>>]
  /\ srvSeq' = srvSeq + 1
  /\ lastOp' = "other"
  /\ UNCHANGED <<appVars, sessVars, hookVars, readyState, micVars, playVars,
                 srvState, srvPrev, srvFields, callEnded, msgHist, moreVars, restVars>>

ControlFrames ==
  {SpeakingMsg(TRUE, FALSE, 0), SpeakingMsg(FALSE, TRUE, 0), MalformedMsg(0)}

PeerFrames == ControlFrames \cup {AudioMsg(0)}

\* ------------------------------------------------------------------ Next
Next ==
  \/ createSession
  \/ StrictModeMount
  \/ createSessionOk
  \/ createSessionFails
  \/ MissingFieldsEffect
  \/ Confirm
  \/ handleModify
  \/ handleCancel
  \/ handleWaitlist
  \/ \E k \in SocketIds : SocketOpen(k)
  \/ \E k \in SocketIds : SocketFails(k)
  \/ \E k \in SocketIds : SocketCloses(k)
  \/ \E k \in SocketIds : onmessage(k)
  \/ StartCall
  \/ \E i \in StartIds : StartWaited(i)
  \/ \E i \in StartIds : MicGranted(i)
  \/ \E i \in StartIds : MicDenied(i)
  \/ \E p \in StartIds : onaudioprocess(p)
  \/ \E l \in StartIds : updateAudioLevel(l)
  \/ EndCall
  \/ \E b \in 1..MaxSeq : playAudioBlob(b)
  \/ \E kind \in Utterances : UserUtterance(kind)
  \/ \E k \in SocketIds : AgentFragment(k)
  \/ \E k \in SocketIds, result \in {"available", "unavailable", "failure"} :
       Availability(k, result)
  \/ \E k \in SocketIds, msg \in PeerFrames \cup MalformedFrames : PeerFrame(k, msg)
  \/ \E k \in SocketIds, sp \in {"user", "agent"} : EmptyFragment(k, sp)
  \/ \E personaType \in Personas : updatePersona(personaType)
  \/ \E voiceId \in Voices : updateVoice(voiceId)
  \/ \E fact \in Facts : injectFact(fact)
  \/ \E r \in inflight : ServeRequest(r)
  \/ \E r \in inflight : updatePersonaDone(r)
  \/ \E r \in inflight : updateVoiceDone(r)
  \/ \E r \in inflight : injectFactDone(r)
  \/ RegistryCreate
  \/ \E id \in SessIds : RegistryGet(id)
  \/ \E id \in SessIds, persona \in Personas : RegistryUpdatePersona(id, persona)
  \/ \E id \in SessIds, voice \in Voices : RegistryUpdateVoice(id, voice)
  \/ \E id \in SessIds : RegistryEnd(id)

Spec == Init /\ [][Next]_vars

\* Transcript fragments of both speakers on the session's connection.
NextFragments ==
  \/ createSession
  \/ createSessionOk
  \/ createSessionFails
  \/ \E k \in SocketIds : SocketOpen(k)
  \/ \E k \in SocketIds : SocketFails(k)
  \/ \E k \in SocketIds : SocketCloses(k)
  \/ \E k \in SocketIds : onmessage(k)
  \/ \E kind \in {"reserve", "name"} : UserUtterance(kind)
  \/ \E k \in SocketIds : AgentFragment(k)
  \/ \E k \in SocketIds, sp \in {"user", "agent"} : EmptyFragment(k, sp)

SpecFragments == Init /\ [][NextFragments]_vars

\* The session's connection when the peer also sends text frames that are
\* not well-formed events.
NextMalformed ==
  \/ createSession
  \/ createSessionOk
  \/ createSessionFails
  \/ \E k \in SocketIds : SocketOpen(k)
  \/ \E k \in SocketIds : SocketFails(k)
  \/ \E k \in SocketIds : SocketCloses(k)
  \/ \E k \in SocketIds : onmessage(k)
  \/ \E kind \in {"reserve", "name", "rest"} : UserUtterance(kind)
  \/ \E k \in SocketIds, msg \in MalformedFrames : PeerFrame(k, msg)

SpecMalformed == Init /\ [][NextMalformed]_vars

\* The registry under requests from any caller, the console's session
\* creation among them.
NextRegistry ==
  \/ createSession
  \/ createSessionOk
  \/ createSessionFails
  \/ RegistryCreate
  \/ \E id \in SessIds : RegistryGet(id)
  \/ \E id \in SessIds, persona \in Personas : RegistryUpdatePersona(id, persona)
  \/ \E id \in SessIds, voice \in Voices : RegistryUpdateVoice(id, voice)
  \/ \E id \in SessIds : RegistryEnd(id)

SpecRegistry == Init /\ [][NextRegistry]_vars

\* The operator changes persona and voice through the endpoints, and the
\* session may end meanwhile.
NextSession ==
  \/ createSession
  \/ createSessionOk
  \/ createSessionFails
  \/ \E id \in SessIds : RegistryEnd(id)
  \/ \E personaType \in Personas : updatePersona(personaType)
  \/ \E voiceId \in Voices : updateVoice(voiceId)
  \/ \E r \in inflight : ServeRequest(r)
  \/ \E r \in inflight : updatePersonaDone(r)
  \/ \E r \in inflight : updateVoiceDone(r)

SpecSession == Init /\ [][NextSession]_vars

\* Facts reach the session through the endpoint and through the control
\* channel of the session's connection.
NextFacts ==
  \/ createSession
  \/ createSessionOk
  \/ createSessionFails
  \/ \E k \in SocketIds : SocketOpen(k)
  \/ handleModify
  \/ handleCancel
  \/ handleWaitlist
  \/ \E id \in SessIds : RegistryEnd(id)
  \/ \E fact \in Facts : injectFact(fact)
  \/ \E r \in inflight : ServeRequest(r)
  \/ \E r \in inflight : injectFactDone(r)

SpecFacts == Init /\ [][NextFacts]_vars

\* One click on Start Call.
FirstCall == starts[1] = "idle" /\ StartCall

\* The conversation on the session's connection: the console is driven by
\* the events of the orchestrator and by the Confirm button; no call is
\* started.
NextConversation ==
  \/ createSession
  \/ createSessionOk
  \/ createSessionFails
  \/ MissingFieldsEffect
  \/ Confirm
  \/ \E k \in SocketIds : SocketOpen(k)
  \/ \E k \in SocketIds : SocketFails(k)
  \/ \E k \in SocketIds : SocketCloses(k)
  \/ \E k \in SocketIds : onmessage(k)
  \/ \E kind \in Utterances : UserUtterance(kind)
  \/ \E k \in SocketIds : AgentFragment(k)
  \/ \E k \in SocketIds, result \in {"available", "unavailable", "failure"} :
       Availability(k, result)
  \/ \E k \in SocketIds, msg \in ControlFrames : PeerFrame(k, msg)

SpecConversation == Init /\ [][NextConversation]_vars

\* The conversation through one call: Start Call, End Call and the events
\* of the orchestrator on every connection it holds open, for a caller who
\* makes a reservation.  The missing-fields effect and the audio data path
\* write none of the variables these actions read and are not followed.
NextDuringCall ==
  \/ createSession
  \/ createSessionOk
  \/ createSessionFails
  \/ \E k \in SocketIds : SocketOpen(k)
  \/ \E k \in SocketIds : SocketFails(k)
  \/ \E k \in SocketIds : SocketCloses(k)
  \/ \E k \in SocketIds : onmessage(k)
  \/ FirstCall
  \/ \E i \in StartIds : StartWaited(i)
  \/ \E i \in StartIds : MicGranted(i)
  \/ \E i \in StartIds : MicDenied(i)
  \/ EndCall
  \/ \E kind \in {"reserve", "name", "rest", "correct"} : UserUtterance(kind)
  \/ \E k \in SocketIds : AgentFragment(k)
  \/ \E k \in SocketIds : PeerFrame(k, SpeakingMsg(FALSE, TRUE, 0))

SpecDuringCall == Init /\ [][NextDuringCall]_vars

\* The operator steers the conversation: the Modify, Cancel and Waitlist
\* buttons and the caller's utterances on the session's connection.
NextControl ==
  \/ createSession
  \/ createSessionOk
  \/ createSessionFails
  \/ MissingFieldsEffect
  \/ handleModify
  \/ handleCancel
  \/ handleWaitlist
  \/ \E k \in SocketIds : SocketOpen(k)
  \/ \E k \in SocketIds : SocketFails(k)
  \/ \E k \in SocketIds : SocketCloses(k)
  \/ \E k \in SocketIds : onmessage(k)
  \/ \E kind \in Utterances : UserUtterance(kind)

SpecControl == Init /\ [][NextControl]_vars

\* The call side: connection, capture and level meter, with the peer
\* sending control frames but no conversation events and no audio.
NextCall ==
  \/ createSession
  \/ createSessionOk
  \/ createSessionFails
  \/ \E k \in SocketIds : SocketOpen(k)
  \/ \E k \in SocketIds : SocketFails(k)
  \/ \E k \in SocketIds : SocketCloses(k)
  \/ \E k \in SocketIds : onmessage(k)
  \/ StartCall
  \/ \E i \in StartIds : StartWaited(i)
  \/ \E i \in StartIds : MicGranted(i)
  \/ \E i \in StartIds : MicDenied(i)
  \/ \E p \in StartIds : onaudioprocess(p)
  \/ \E l \in StartIds : updateAudioLevel(l)
  \/ EndCall
  \/ \E k \in SocketIds, msg \in ControlFrames : PeerFrame(k, msg)

SpecCall == Init /\ [][NextCall]_vars

\* The two audio directions of one call: audio frames from the peer and
\* their playback, microphone buffers and their sending.
NextAudio ==
  \/ createSession
  \/ createSessionOk
  \/ createSessionFails
  \/ \E k \in SocketIds : SocketOpen(k)
  \/ \E k \in SocketIds : SocketFails(k)
  \/ \E k \in SocketIds : SocketCloses(k)
  \/ \E k \in SocketIds : onmessage(k)
  \/ FirstCall
  \/ \E i \in StartIds : StartWaited(i)
  \/ \E i \in StartIds : MicGranted(i)
  \/ \E p \in StartIds : onaudioprocess(p)
  \/ EndCall
  \/ \E b \in 1..MaxSeq : playAudioBlob(b)
  \/ \E k \in SocketIds : PeerFrame(k, AudioMsg(0))

SpecAudio == Init /\ [][NextAudio]_vars

\* ================================================================ claims
NonNull(ex) == {f \in Required : ex[f] # Null}

\* C1: no two adjacent transcript entries have the same speaker; a
\* fragment of the last entry's speaker is merged into that entry (no entry
\* added), any other fragment adds exactly one entry.
C1_OneEntryPerTurn ==
  /\ [](\A i \in 1..(Len(transcript) - 1) :
          transcript[i].speaker # transcript[i + 1].speaker)
  /\ [][transcript' # transcript =>
          LET n == Len(transcript) IN
          \/ /\ Len(transcript') = n /\ n > 0
             /\ transcript'[n].speaker = transcript[n].speaker
             /\ SubSeq(transcript', 1, n - 1) = SubSeq(transcript, 1, n - 1)
          \/ /\ Len(transcript') = n + 1
             /\ SubSeq(transcript', 1, n) = transcript
             /\ n > 0 => transcript'[n + 1].speaker # transcript[n].speaker
       ]_vars

\* Two turns, one of them merged from several fragments.
C1_Witness ==
  /\ Len(transcript) >= 2
  /\ \E i \in 1..Len(transcript) : Len(transcript[i].text) >= 2

\* C2: missingFields is the four required fields minus the non-null
\* extracted ones, in every state.
C2_MissingFieldsDerived == missingFields = Required \ NonNull(extracted)

\* C3: a required field that is non-null does not become null again,
\* except by a snapshot whose utterance explicitly corrects it.
C3_NoRegression ==
  [][\A f \in Required :
       (extracted[f] # Null /\ extracted'[f] = Null) => f \in lastCorr']_vars

\* C4: the state becomes complete only from confirming and only with all
\* four required fields non-null.
C4_CompleteOnlyFromConfirming ==
  [][(conversationState # "complete" /\ conversationState' = "complete") =>
       (conversationState = "confirming" /\ NonNull(extracted) = Required)]_vars

\* C5: complete is terminal.
C5_CompleteIsTerminal ==
  [][conversationState = "complete" => conversationState' = "complete"]_vars

C7_StopReleasesAll ==
  lastOp = "stopRecording" =>
    /\ liveStreams = {} /\ liveContexts = {} /\ liveProcessors = {}
    /\ \A k \in SocketIds : readyState[k] \notin {"CONNECTING", "OPEN"}
    /\ ~isConnected /\ ~isRecording /\ audioLevel = 0
    /\ stopRecording(HookState) = HookState

\* C8: once the call is ended, no transcript, extraction, state or
\* speaking event changes the console.
C8_NoEventsAfterEnd ==
  [][(callEnded /\ callEnded' /\ lastOp' \in EventTypes) =>
       UNCHANGED <<transcript, extracted, conversationState,
                   speakingState>>]_vars

\* C9: received audio frames are played in arrival order, and captured
\* buffers are sent in capture order.
C9_FrameOrder ==
  /\ \A i, j \in 1..Len(played) : i < j => played[i] < played[j]
  /\ \A i, j \in 1..Len(sentFrames) : i < j => sentFrames[i].n < sentFrames[j].n

\* C10: transcript entries, snapshots and state changes are applied in
\* the order the orchestrator produced them.
C10_AppliedInOrder == [][lastApplied' >= lastApplied]_vars

EntersCheckingWhenComplete ==
  /\ (srvState = "collecting_reservation"
        /\ srvState' = "checking_availability") => SrvMissing(srvFields') = {}
  /\ \A kind \in Utterances \ (Interrupts \cup {"garbled"}) :
       (UserUtterance(kind) /\ srvState = "collecting_reservation"
          /\ SrvMissing(srvFields') = {}) =>
       srvState' = "checking_availability"
  /\ (lastOp' = "state" /\ conversationState = "collecting_reservation"
        /\ conversationState' = "checking_availability") =>
       NonNull(extracted') = Required

C14_AlternativesOffered ==
  /\ [][\A k \in SocketIds :
         /\ Availability(k, "unavailable") =>
              srvState' = "offering_alternatives"
         /\ Availability(k, "available") => srvState' = "confirming"]_vars
  /\ [](conversationState = "offering_alternatives" => availableSlots # {})

C18_PersonaVoiceUpdates ==
  [][\A r \in inflight :
       LET Rest == /\ UNCHANGED <<transcript, extracted, conversationState>>
                   /\ UNCHANGED <<srvState, srvFields, srvFacts>>
                   /\ session'.facts = session.facts
           Served == [r EXCEPT !.status = "ok",
                               !.voice_id = registry'[sessionId].voice_id]
       IN /\ (ServeRequest(r) /\ r.op = "persona" /\ registry[sessionId].is_active)
               => /\ registry'[sessionId].persona_type = r.arg
                  /\ Served \in inflight'
                  /\ Rest
          /\ (ServeRequest(r) /\ r.op = "voice" /\ registry[sessionId].is_active)
               => /\ registry'[sessionId].voice_id = r.arg
                  /\ registry'[sessionId].persona_type = registry[sessionId].persona_type
                  /\ Rest
          /\ (updatePersonaDone(r) /\ r.status = "ok")
               => /\ session'.persona_type = r.arg
                  /\ session'.voice_id = r.voice_id
                  /\ Rest
          /\ (updateVoiceDone(r) /\ r.status = "ok")
               => /\ session'.voice_id = r.arg
                  /\ session'.persona_type = session.persona_type
                  /\ Rest]_vars

C18_Witness ==
  /\ session.persona_type = "sports_bar" /\ session.voice_id = "NATM2"
  /\ registry[sessionId].persona_type = "sports_bar"
  /\ registry[sessionId].voice_id = "NATM2"
  /\ inflight = {}

IsPrefix(a, b) == Len(a) <= Len(b) /\ SubSeq(b, 1, Len(a)) = a

C20_NeverSilentlyDisconnected ==
  [][\A k \in SocketIds :
       (readyState[k] = "OPEN" /\ readyState'[k] = "CLOSED")
         => \/ lastOp' \in {"state", "error", "transport"}
            \/ lastOp \in {"state", "error", "transport"}]_vars

\* C21: a malformed structured message is dropped with an error event and
\* leaves the session unaffected: applying it changes neither transcript,
\* extracted fields, conversation state nor speaking flags, and an error
\* reaches the client's handlers.
C21_MalformedDropped ==
  [][\A k \in SocketIds :
       (onmessage(k) /\ chan[k] # <<>>
          /\ \E m \in MalformedFrames : [Head(chan[k]) EXCEPT !.seq = 0] = m)
         => /\ UNCHANGED <<transcript, extracted, conversationState, speakingState>>
            /\ lastOp' = "error"]_vars

\* C22: when microphone access fails in startRecording the failure reaches
\* onError, isRecording is not set, and the call goes on degraded: sockets,
\* transcript, extracted fields and conversation state are as they were.
C22_MicFailureDegrades ==
  [][\A i \in StartIds :
       MicDenied(i)
         => /\ lastOp' = "transport"
            /\ isRecording' = isRecording
            /\ (\A j \in StartIds \ {i} : starts[j] = "idle") => ~isRecording'
            /\ UNCHANGED <<wsRef, readyState, chan, isConnected>>
            /\ UNCHANGED <<transcript, extracted, conversationState>>]_vars

C22_Witness ==
  /\ lastOp = "transport" /\ starts[1] = "done" /\ ~isRecording
  /\ wsRef # NoRef /\ readyState[wsRef] = "OPEN" /\ isConnected
  /\ \A k \in SocketIds : readyState[k] # "CLOSED"
  /\ liveStreams = {}

\* C23: a transcript fragment whose text is empty is dropped: it creates no
\* entry and changes neither text nor timestamp of an existing entry,
\* whatever its speaker.
C23_EmptyFragmentDropped ==
  [][\A k \in SocketIds :
       (onmessage(k) /\ chan[k] # <<>>
          /\ Head(chan[k]).type = "transcript" /\ Head(chan[k]).text = <<>>)
         => transcript' = transcript]_vars

\* C24: transcript entries are strictly timestamp-ordered: each entry's
\* timestamp is greater than that of the entry before it.
C24_TimestampOrdered ==
  \A i \in 1..(Len(transcript) - 1) :
    transcript[i].timestamp < transcript[i + 1].timestamp

RECURSIVE Concat(_)
Concat(texts) == IF texts = <<>> THEN <<>> ELSE Head(texts) \o Concat(Tail(texts))

\* C26: a fragment merged into the last entry makes that entry's text the
\* previous text followed by the fragment's, its timestamp the fragment's,
\* leaves its speaker and every earlier entry alone; so the last entry's
\* text is the concatenation, in arrival order, of its turn's fragments.
C26_MergeConcatenates ==
  /\ [][\A k \in SocketIds :
          LET msg == Head(chan[k])
              n == Len(transcript)
          IN (onmessage(k) /\ chan[k] # <<>> /\ msg.type = "transcript"
                /\ n > 0 /\ transcript[n].speaker = msg.speaker)
               => /\ Len(transcript') = n
                  /\ transcript'[n].text = transcript[n].text \o msg.text
                  /\ transcript'[n].timestamp = msg.timestamp
                  /\ transcript'[n].speaker = transcript[n].speaker
                  /\ \A i \in 1..(n - 1) : transcript'[i] = transcript[i]]_vars
  /\ [](transcript # <<>> =>
          transcript[Len(transcript)].text = Concat(turnFragments))

C26_Witness ==
  /\ Len(transcript) = 2 /\ Len(turnFragments) = 2
  /\ transcript[2].text = turnFragments[1] \o turnFragments[2]
  /\ turnFragments[1] # <<>> /\ turnFragments[2] # <<>>
  /\ lastOp = "transcript"

\* C27: at most one WebSocket of the session is live (connecting or open)
\* at any time, and only the socket the hook holds can deliver messages.
C27_OneLiveSocket ==
  /\ Cardinality({k \in SocketIds : readyState[k] \in {"CONNECTING", "OPEN"}}) <= 1
  /\ \A k \in SocketIds : readyState[k] = "OPEN" => wsRef = k

\* C28: isConnected is true exactly when the socket the hook holds is
\* open; callbacks of a replaced or released socket do not change it.
C28_ConnectedIffHeldSocketOpen ==
  isConnected <=> (wsRef # NoRef /\ readyState[wsRef] = "OPEN")

\* C29: whenever isRecording is true the hook holds an open socket, so
\* what is captured is relayed.
C29_RecordingImpliesOpenSocket ==
  isRecording => (wsRef # NoRef /\ readyState[wsRef] = "OPEN")

\* The page load: the mount effect, its second run under StrictMode, the
\* responses to the requests it issued, and the sockets the sessions open.
NextMount ==
  \/ createSession
  \/ StrictModeMount
  \/ createSessionOk
  \/ createSessionFails
  \/ \E k \in SocketIds : SocketOpen(k)
  \/ \E k \in SocketIds : SocketFails(k)
  \/ \E k \in SocketIds : SocketCloses(k)
  \/ \E k \in SocketIds : onmessage(k)
  \/ \E kind \in {"reserve", "name"} : UserUtterance(kind)

SpecMount == Init /\ [][NextMount]_vars

\* C30: at most one create-session request is issued per page load, the
\* second run of the mount effect under StrictMode included, and every
\* createSession ends with isLoading false and exactly one of session and
\* error set.
C30_SessionCreatedOnce ==
  /\ [](createRequests <= 1)
  /\ [][(createSessionOk \/ createSessionFails) =>
          /\ ~isLoading'
          /\ (sessionId' # Null) # (error' # Null)]_vars

==============================================================================
